---- MODULE Spec2Model ----
(***************************************************************************)
(* Request admission control of the AI coding mentor backend:              *)
(* backend/app/middleware/rate_limiting.py.                                *)
(*                                                                         *)
(* A RateLimiter keeps a sliding window of event timestamps per rate key,  *)
(* in a Redis sorted set when a client is configured and in a per-process  *)
(* dict of deques otherwise (and whenever a Redis call raises).            *)
(***************************************************************************)
EXTENDS Integers, Sequences, FiniteSets, TLC

VARIABLES
    now,            \* the wall clock, in whole seconds: int(time.time())
    redis_ok,       \* TRUE while the Redis server answers
    redis_client,   \* per process: TRUE when self.redis_client is set
    zset,           \* Redis: per key, the sorted set as {[member, score]}
    ttl,            \* Redis: per key, the time its EXPIRE runs out
    memory_store,   \* per process: the defaultdict key -> deque of timestamps
    last_cleanup,   \* per process: self.last_cleanup
    pc,             \* per process: where its is_allowed call stands
    call,           \* per process: the arguments and locals of that call
    policy,         \* per key in use: the (limit, window) it is checked with
    log,            \* every result is_allowed has returned, in order
    prompt,         \* TRUE while no call has seen the clock move on under it
    redis_stalled,  \* TRUE while the Redis server leaves calls unanswered
    req,            \* per request: what came in and how far the guards are
    thread,         \* per thread: where its _check_memory stands, its locals
    validation      \* CodeValidator: the tests to run and the result returned

vars == <<now, redis_ok, redis_client, zset, ttl, memory_store, last_cleanup,
          pc, call, policy, log, prompt, redis_stalled, req,
          thread, validation>>

-----------------------------------------------------------------------------
\* Bounds of the model.
MaxLimit == 3
MaxWindow == 2
MaxTicks == 2
MaxChecks == 3

\* self.memory_cleanup_interval
memory_cleanup_interval == 60

Procs == {"p1", "p2"}
Keys == {"ka", "kb"}
NoCall == [key |-> "none"]

\* The requests in flight at the guards, and a slot no request has taken.
Reqs == {"r1", "r2"}
NoRequest == [stage |-> "none"]

\* The threads that may run a local check side by side, and a thread that
\* runs none; a validator that has not been called.
Threads == {"t1", "t2"}
NoThread == [pc |-> "idle"]
NoValidation == [stage |-> "none"]

Max(a, b) == IF a >= b THEN a ELSE b
Min(a, b) == IF a <= b THEN a ELSE b

-----------------------------------------------------------------------------
\* str(now): the decimal digits of a non-negative integer, most significant
\* first.  This is the member name _check_redis gives an event.
RECURSIVE str(_)
str(n) == IF n < 10 THEN <<n>> ELSE Append(str(n \div 10), n % 10)

\* Redis sorted-set commands, on a set of [member, score] records in which
\* no two records share a member.
zremrangebyscore(z, lo, hi) == {e \in z : ~(lo <= e.score /\ e.score <= hi)}
zcard(z) == Cardinality(z)
zadd(z, m, s) == {e \in z : e.member # m} \cup {[member |-> m, score |-> s]}
zrem(z, m) == {e \in z : e.member # m}

\* What Redis holds under key k at server time t: an expired key is gone.
redis_key(k) == IF now >= ttl[k] THEN {} ELSE zset[k]

-----------------------------------------------------------------------------
\* The local store.

\* The loop with a strict comparison: an event at the cutoff stays.
RECURSIVE popleft_expired_strict(_, _)
popleft_expired_strict(timestamps, cutoff) ==
    IF timestamps # <<>> /\ Head(timestamps) < cutoff
    THEN popleft_expired_strict(Tail(timestamps), cutoff)
    ELSE timestamps

\* while timestamps and timestamps[0] <= cutoff: timestamps.popleft()
RECURSIVE popleft_expired(_, _)
popleft_expired(timestamps, cutoff) ==
    IF timestamps # <<>> /\ Head(timestamps) <= cutoff
    THEN popleft_expired(Tail(timestamps), cutoff)
    ELSE timestamps

\* _cleanup_memory(now, default_window): trim every deque with the one
\* window it is given, then delete the keys whose deque is empty.
cleanup_memory(store, t, default_window) ==
    LET trimmed == [k \in DOMAIN store |->
                        popleft_expired(store[k], t - default_window)]
        keys_to_remove == {k \in DOMAIN store : trimmed[k] = <<>>}
    IN  [k \in (DOMAIN store) \ keys_to_remove |-> trimmed[k]]

\* The comparison off by one: a check is admitted at the limit too.
memory_allowed_at_limit(current_count, limit) == current_count <= limit

\* allowed = current_count < limit
memory_allowed(current_count, limit) == current_count < limit

\* _check_memory(key, limit, window, now) on the store and last_cleanup of
\* one process: the store and last_cleanup after it, and what it returns.
\* before and after are the key's deque once the expired entries are gone
\* and when the check returns.
check_memory(store, lc, key, limit, window, t) ==
    LET sweep  == t - lc > memory_cleanup_interval
        store1 == IF sweep THEN cleanup_memory(store, t, window) ELSE store
        lc1    == IF sweep THEN t ELSE lc
        ts0    == IF key \in DOMAIN store1 THEN store1[key] ELSE <<>>
        ts1    == popleft_expired(ts0, t - window)
        count  == Len(ts1)
        allowed == memory_allowed(count, limit)
        ts2    == IF allowed THEN Append(ts1, t) ELSE ts1
        current_count == IF allowed THEN count + 1 ELSE count
    IN  [store |-> [k \in (DOMAIN store1) \cup {key} |->
                        IF k = key THEN ts2 ELSE store1[k]],
         last_cleanup |-> lc1,
         allowed |-> allowed,
         info |-> [limit |-> limit,
                   remaining |-> Max(0, limit - current_count),
                   reset |-> t + window,
                   current |-> current_count],
         before |-> ts1,
         after |-> ts2]

-----------------------------------------------------------------------------
\* The shared store.

\* The MULTI/EXEC pipeline of _check_redis on the sorted set z of the key:
\* the set after it, results[1] (the ZCARD reply), and the set as ZCARD saw it.
redis_pipeline(z, window, t) ==
    LET z1 == zremrangebyscore(z, 0, t - window)
    IN  [z |-> zadd(z1, str(t), t), zcard |-> zcard(z1), before |-> z1]

\* current_count, remaining, reset_time and allowed of _check_redis.
redis_result(card, limit, window, t) ==
    LET current_count == card + 1
    IN  [allowed |-> current_count <= limit,
         info |-> [limit |-> limit,
                   remaining |-> Max(0, limit - current_count),
                   reset |-> t + window,
                   current |-> current_count]]

-----------------------------------------------------------------------------
\* What is_allowed hands back to its caller, as a log entry: the process, the
\* key and the time of the check, the (allowed, info) pair, the store that
\* decided and whether that was after a Redis error, and the key's events in
\* that store as the check counted them and as it left them.
Returned(p, k, t, r, backend, fellback) ==
    [proc |-> p, key |-> k, now |-> t, outcome |-> "returned",
     allowed |-> r.allowed, info |-> r.info,
     backend |-> backend, fellback |-> fellback,
     before |-> r.before, after |-> r.after]

InFlight == {p \in Procs : pc[p] # "idle"}

\* RateLimiter.__init__(redis_url) where the import of redis gave available
\* and the ping answers iff reachable.
rate_limiter_init(available, url_given, reachable) ==
    [redis_client |-> available /\ url_given /\ reachable,
     memory_store |-> << >>,
     last_cleanup |-> 0]

\* The policies that callers may use for the given keys.
Policies(keys) == [keys -> [limit : 1..MaxLimit, window : 1..MaxWindow]]

\* The state the limiter starts from, given each process's client and the
\* policies callers may use (functions from the keys in use).
InitWithPolicies(clients, policies) ==
    /\ now = 0
    /\ redis_ok \in BOOLEAN
    /\ redis_client = clients
    /\ zset = [k \in Keys |-> {}]
    /\ ttl = [k \in Keys |-> 0]
    /\ memory_store = [p \in Procs |->
              rate_limiter_init(TRUE, TRUE, TRUE).memory_store]
    /\ last_cleanup = [p \in Procs |->
              rate_limiter_init(TRUE, TRUE, TRUE).last_cleanup]
    /\ pc = [p \in Procs |-> "idle"]
    /\ call = [p \in Procs |-> NoCall]
    /\ policy \in policies
    /\ \A j, k \in DOMAIN policy :
           j = "ka" => policy[j].window >= policy[k].window
    /\ log = <<>>
    /\ prompt = TRUE
    /\ redis_stalled = FALSE
    /\ req = [r \in Reqs |-> NoRequest]
    /\ thread = [t \in Threads |-> NoThread]
    /\ validation = NoValidation

\* The same, with every policy of at least 1 per window for the given keys.
InitWith(clients, keys) == InitWithPolicies(clients, Policies(keys))

\* configure_rate_limiter(redis_url) has run in every process.  The ping of
\* p1 was answered; that of p2 was answered or not (the processes are alike,
\* and two processes without a client share nothing).
Init ==
    \E reachable \in BOOLEAN :
        InitWith([p \in Procs |->
            rate_limiter_init(TRUE, TRUE, p = "p1" \/ reachable).redis_client],
            {"ka"})

\* configure_rate_limiter(redis_url) has run in every process: the ping of
\* p1 was answered, that of p2 was not.
InitFallback ==
    InitWith([p \in Procs |->
        rate_limiter_init(TRUE, TRUE, p = "p1").redis_client], {"ka"})

\* The module's own instance, rate_limiter = RateLimiter(): no URL.  (Keys
\* are alike, so InitWith lets the first one have the longest window.)
InitLocal ==
    InitWith([p \in Procs |->
        rate_limiter_init(TRUE, FALSE, TRUE).redis_client], Keys)

-----------------------------------------------------------------------------
\* The clock moves on.  Seconds(t) and Intervals(t) count the steps of
\* either kind that led to time t.
Seconds(t) == t % memory_cleanup_interval
Intervals(t) == t \div memory_cleanup_interval

\* One second passes.
Tick ==
    /\ Seconds(now) + Intervals(now) < MaxTicks
    /\ now' = now + 1
    /\ prompt' = (prompt /\ InFlight = {})
    /\ UNCHANGED <<redis_stalled, req, thread, validation>>
    /\ UNCHANGED <<redis_ok, redis_client, zset, ttl, memory_store,
                   last_cleanup, pc, call, policy, log>>

\* A whole cleanup interval passes with no request.
TickInterval ==
    /\ Seconds(now) + Intervals(now) < MaxTicks
    /\ now' = now + memory_cleanup_interval
    /\ prompt' = (prompt /\ InFlight = {})
    /\ UNCHANGED <<redis_stalled, req, thread, validation>>
    /\ UNCHANGED <<redis_ok, redis_client, zset, ttl, memory_store,
                   last_cleanup, pc, call, policy, log>>

\* The Redis server becomes unreachable, or reachable again.
RedisFlip ==
    /\ redis_ok' = ~redis_ok
    /\ UNCHANGED <<redis_stalled, req, thread, validation>>
    /\ UNCHANGED <<now, redis_client, zset, ttl, memory_store, last_cleanup,
                   pc, call, policy, log, prompt>>

\* A local check that counts the events of the shared store too: the limit
\* it applies is what those events leave of it.
memory_return_counting_shared(p, k, t, fellback) ==
    LET r == check_memory(memory_store[p], last_cleanup[p], k,
                          Max(0, policy[k].limit - zcard(zset[k])),
                          policy[k].window, t)
    IN  /\ memory_store' = [memory_store EXCEPT ![p] = r.store]
        /\ last_cleanup' = [last_cleanup EXCEPT ![p] = r.last_cleanup]
        /\ log' = Append(log, Returned(p, k, t, r, "memory", fellback))
        /\ pc' = [pc EXCEPT ![p] = "idle"]
        /\ call' = [call EXCEPT ![p] = NoCall]

\* The local check of process p for key k at time t, returned to the caller.
memory_return(p, k, t, fellback) ==
    LET r == check_memory(memory_store[p], last_cleanup[p], k,
                          policy[k].limit, policy[k].window, t)
    IN  /\ memory_store' = [memory_store EXCEPT ![p] = r.store]
        /\ last_cleanup' = [last_cleanup EXCEPT ![p] = r.last_cleanup]
        /\ log' = Append(log, Returned(p, k, t, r, "memory", fellback))
        /\ pc' = [pc EXCEPT ![p] = "idle"]
        /\ call' = [call EXCEPT ![p] = NoCall]

\* is_allowed with no Redis client: _check_memory, with no suspension point.
IsAllowedMemory(p, k) ==
    /\ pc[p] = "idle"
    /\ ~redis_client[p]
    /\ Len(log) + Cardinality(InFlight) < MaxChecks
    /\ memory_return(p, k, now, FALSE)
    /\ UNCHANGED <<redis_stalled, req, thread, validation>>
    /\ UNCHANGED <<now, redis_ok, redis_client, zset, ttl, policy, prompt>>

\* is_allowed with a Redis client: now is read and the pipeline is queued.
IsAllowedRedis(p, k) ==
    /\ pc[p] = "idle"
    /\ redis_client[p]
    /\ Len(log) + Cardinality(InFlight) < MaxChecks
    /\ pc' = [pc EXCEPT ![p] = "pipeline"]
    /\ call' = [call EXCEPT ![p] = [key |-> k, now |-> now]]
    /\ UNCHANGED <<redis_stalled, req, thread, validation>>
    /\ UNCHANGED <<now, redis_ok, redis_client, zset, ttl, memory_store,
                   last_cleanup, policy, log, prompt>>

\* No handler around the Redis calls: the error reaches the caller.
redis_except_reraise(p) ==
    /\ log' = Append(log, [proc |-> p, key |-> call[p].key,
                           now |-> call[p].now,
                           outcome |-> "raised", allowed |-> FALSE,
                           info |-> [limit |-> 0, remaining |-> 0,
                                     reset |-> 0, current |-> 0],
                           backend |-> "redis", fellback |-> FALSE,
                           before |-> {}, after |-> {}])
    /\ pc' = [pc EXCEPT ![p] = "idle"]
    /\ call' = [call EXCEPT ![p] = NoCall]
    /\ UNCHANGED <<redis_stalled, req, thread, validation>>
    /\ UNCHANGED <<now, redis_ok, redis_client, zset, ttl, memory_store,
                   last_cleanup, policy, prompt>>

\* except Exception: fall back to the memory store for this check.
redis_except(p) ==
    /\ memory_return(p, call[p].key, call[p].now, TRUE)
    /\ UNCHANGED <<redis_stalled, req, thread, validation>>
    /\ UNCHANGED <<now, redis_ok, redis_client, zset, ttl, policy, prompt>>

\* pipe.execute() runs on the server as one transaction.
PipelineExecute(p) ==
    /\ pc[p] = "pipeline"
    /\ ~redis_stalled
    /\ redis_ok
    /\ LET k == call[p].key
           t == call[p].now
           x == redis_pipeline(redis_key(k), policy[k].window, t)
           y == redis_result(x.zcard, policy[k].limit, policy[k].window, t)
           r == [allowed |-> y.allowed, info |-> y.info,
                 before |-> x.before, after |-> x.z]
       IN  /\ zset' = [zset EXCEPT ![k] = x.z]
           /\ ttl' = [ttl EXCEPT ![k] = now + policy[k].window]
           /\ IF r.allowed
              THEN /\ log' = Append(log, Returned(p, k, t, r, "redis", FALSE))
                   /\ pc' = [pc EXCEPT ![p] = "idle"]
                   /\ call' = [call EXCEPT ![p] = NoCall]
              ELSE /\ log' = log
                   /\ pc' = [pc EXCEPT ![p] = "zrem"]
                   /\ call' = [call EXCEPT ![p] =
                                  [key |-> k, now |-> t, result |-> r]]
    /\ UNCHANGED <<redis_stalled, req, thread, validation>>
    /\ UNCHANGED <<now, redis_ok, redis_client, memory_store, last_cleanup,
                   policy, prompt>>

\* pipe.execute() raises: the server did not answer.
PipelineFail(p) ==
    /\ pc[p] = "pipeline"
    /\ ~redis_stalled
    /\ ~redis_ok
    /\ redis_except(p)

\* The denied caller removes the member it added, and returns.
ZremExecute(p) ==
    /\ pc[p] = "zrem"
    /\ ~redis_stalled
    /\ redis_ok
    /\ LET k == call[p].key
           t == call[p].now
           z == zrem(redis_key(k), str(t))
       IN  /\ zset' = [zset EXCEPT ![k] = z]
           /\ log' = Append(log, Returned(p, k, t,
                                [call[p].result EXCEPT !.after = z],
                                "redis", FALSE))
    /\ pc' = [pc EXCEPT ![p] = "idle"]
    /\ call' = [call EXCEPT ![p] = NoCall]
    /\ UNCHANGED <<redis_stalled, req, thread, validation>>
    /\ UNCHANGED <<now, redis_ok, redis_client, ttl, memory_store,
                   last_cleanup, policy, prompt>>

\* self.redis_client.zrem raises: the server did not answer.
ZremFail(p) ==
    /\ pc[p] = "zrem"
    /\ ~redis_stalled
    /\ ~redis_ok
    /\ redis_except(p)

Next ==
    \/ Tick
    \/ RedisFlip
    \/ \E p \in Procs, k \in DOMAIN policy : IsAllowedMemory(p, k)
    \/ \E p \in Procs, k \in DOMAIN policy : IsAllowedRedis(p, k)
    \/ \E p \in Procs : PipelineExecute(p)
    \/ \E p \in Procs : PipelineFail(p)
    \/ \E p \in Procs : ZremExecute(p)
    \/ \E p \in Procs : ZremFail(p)

Spec == Init /\ [][Next]_vars

\* One process with a client and the shared store coming and going under
\* it, next to one process whose connection failed at construction.
NextFallback ==
    \/ Tick
    \/ RedisFlip
    \/ \E k \in DOMAIN policy : IsAllowedMemory("p2", k)
    \/ \E k \in DOMAIN policy : IsAllowedRedis("p1", k)
    \/ PipelineExecute("p1")
    \/ PipelineFail("p1")
    \/ ZremExecute("p1")
    \/ ZremFail("p1")

SpecFallback == InitFallback /\ [][NextFallback]_vars

\* One process serving every check from its local store.
NextLocal ==
    \/ Tick
    \/ TickInterval
    \/ \E k \in DOMAIN policy : IsAllowedMemory("p1", k)

SpecLocal == InitLocal /\ [][NextLocal]_vars

-----------------------------------------------------------------------------
\* Reading the log.

Idx == 1..Len(log)
Limit(k) == policy[k].limit
Window(k) == policy[k].window

\* The store that decided entry e: the shared one, or the local one of the
\* process that made the check.
StoreOf(e) == IF e.backend = "redis" THEN "redis" ELSE e.proc

\* The number of events in a before/after observation of entry e.
Size(e, events) == IF e.backend = "redis" THEN Cardinality(events)
                                         ELSE Len(events)

\* Every check so far was made by process p, one after the other, and no
\* other process has a call under way.
Sequential(p) ==
    /\ \A i \in Idx : log[i].proc = p
    /\ \A q \in Procs \ {p} : pc[q] = "idle"

\* Every check so far returned within the second in which it read the clock.
Prompt == prompt

\* The entries of key k, and those of them that were admitted.
EntriesOf(k) == {i \in Idx : log[i].key = k}
Admitted(E) == {i \in E : log[i].allowed}

\* All the checks in E read the clock within one window of key k.
InOneWindow(E, k) ==
    \A i, j \in E : log[j].now - log[i].now < Window(k)

-----------------------------------------------------------------------------
\* C1: in one store, the admitted checks of a key whose timestamps lie in any
\* span of window_seconds number at most limit (stated for checks that each
\* returned within the second in which they read the clock).
C1_AdmittedWithinLimit ==
    Prompt => \A i \in Idx :
        log[i].allowed =>
            Cardinality({j \in Idx :
                /\ log[j].allowed
                /\ log[j].key = log[i].key
                /\ StoreOf(log[j]) = StoreOf(log[i])
                /\ log[i].now <= log[j].now
                /\ log[j].now < log[i].now + Window(log[i].key)})
            <= Limit(log[i].key)

\* C2: when every check made so far on a key was answered by the shared
\* store, all within one window and each within the second in which it read
\* the clock, by more than one process, and none is still under way,
\* exactly min(limit, number of checks) of them were admitted.
C2_SharedBurstExact ==
    \A k \in DOMAIN policy :
        LET E == EntriesOf(k)
        IN  (/\ InFlight = {}
             /\ Prompt
             /\ \E i, j \in E : log[i].proc # log[j].proc
             /\ \A i \in E : log[i].backend = "redis"
             /\ InOneWindow(E, k))
            => Cardinality(Admitted(E)) = Min(Limit(k), Cardinality(E))

\* The local algorithm run over the checks log[i..] whose index is in E, from
\* the given store and last_cleanup: TRUE when each such entry carries the
\* (allowed, info) pair _check_memory returns at that point.
RECURSIVE LocalReplayAgrees(_, _, _, _)
LocalReplayAgrees(i, store, lc, E) ==
    IF i > Len(log) THEN TRUE
    ELSE IF i \notin E THEN LocalReplayAgrees(i + 1, store, lc, E)
    ELSE LET e == log[i]
             r == check_memory(store, lc, e.key, Limit(e.key), Window(e.key),
                               e.now)
         IN  /\ e.allowed = r.allowed
             /\ e.info = r.info
             /\ LocalReplayAgrees(i + 1, r.store, r.last_cleanup, E)

\* Checks made one after the other by one process, each returning within
\* the second in which it read the clock.
Orderly == Prompt /\ \E p \in Procs : Sequential(p)

\* log[a..b] is a burst on key k: consecutive checks on k, the first ones
\* ever made on it, all within one window.
Burst(k, a, b) ==
    /\ a <= b
    /\ \A m \in a..b : log[m].key = k
    /\ \A m \in 1..(a - 1) : log[m].key # k
    /\ log[b].now - log[a].now < Window(k)

\* C3: with the local store alone, a burst of n checks on a fresh key admits
\* exactly min(limit, n) of them: the first limit ones, the others denied.
C3_LocalBurstExact ==
    \A k \in DOMAIN policy : \A a, b \in Idx :
        Burst(k, a, b) =>
            \A m \in a..b : log[m].allowed <=> (m - a + 1 <= Limit(k))

\* C3, witness: a burst of limit + K checks, K > 0, that crosses a second,
\* with limit of them admitted and the last one denied.
C3_Witness ==
    \E k \in DOMAIN policy : \E a, b \in Idx :
        /\ Burst(k, a, b)
        /\ b - a + 1 > Limit(k)
        /\ log[b].now > log[a].now
        /\ Cardinality(Admitted(a..b)) = Limit(k)
        /\ ~log[b].allowed

\* The checks of process p that its local store decided.
LocalEntries(p) == {i \in Idx : log[i].proc = p /\ log[i].backend = "memory"}

\* C4: no check raises; a process with a client asks the shared store on
\* every check, also after a failed one, and a process whose connection
\* failed at construction serves every check locally; and each check that was
\* not answered by the shared store carries the local store's decision.
C4_FallbackNeverRaises ==
    /\ \A i \in Idx :
         LET e == log[i]
         IN  /\ e.outcome = "returned"
             /\ e.fellback => e.backend = "memory"
             /\ redis_client[e.proc] => (e.backend = "redis" \/ e.fellback)
             /\ ~redis_client[e.proc] => (e.backend = "memory" /\ ~e.fellback)
    /\ \A p \in Procs : LocalReplayAgrees(1, << >>, 0, LocalEntries(p))

\* C4, witness: a process fell back once and was answered by the shared
\* store on a later check, and the process without a client made a check.
C4_Witness ==
    /\ \E i, j \in Idx :
         /\ i < j
         /\ log[i].proc = log[j].proc
         /\ log[i].fellback
         /\ log[j].backend = "redis"
    /\ \E m \in Idx : ~redis_client[log[m].proc]

\* C5: for checks made one after the other, all answered by the shared
\* store, each result equals the one the local store gives for the same
\* sequence of checks from an empty state.
C5_BackendsAgree ==
    (Orderly /\ \A i \in Idx : log[i].backend = "redis")
        => LocalReplayAgrees(1, << >>, 0, Idx)

\* The position of entry i among the entries E, in log order.
Rank(i, E) == Cardinality({j \in E : j <= i})

\* C6: for checks on a key made one after the other in one store and within
\* one window, starting with no event recorded, the k-th check with k <= limit
\* is admitted and reports remaining = limit - k, and every later one reports
\* remaining = 0.
C6_RemainingCountsDown ==
    Orderly =>
        \A k \in DOMAIN policy :
            LET E == EntriesOf(k)
            IN  (/\ InOneWindow(E, k)
                 /\ \A i, j \in E : StoreOf(log[i]) = StoreOf(log[j]))
                => \A i \in E :
                     IF Rank(i, E) <= Limit(k)
                     THEN /\ log[i].allowed
                          /\ log[i].info.remaining = Limit(k) - Rank(i, E)
                     ELSE log[i].info.remaining = 0

\* C7: for checks made one after the other, the events a check counts are
\* exactly the events recorded in its store by earlier admitted checks on
\* its key at times t with now - t < window_seconds.
C7_CountedExactlyInWindow ==
    Orderly =>
        \A j \in Idx :
            Size(log[j], log[j].before) =
                Cardinality({i \in Idx :
                    /\ i < j
                    /\ log[i].key = log[j].key
                    /\ StoreOf(log[i]) = StoreOf(log[j])
                    /\ log[i].allowed
                    /\ log[j].now - log[i].now < Window(log[j].key)})

\* C8: for checks made one after the other, a denied check leaves the
\* unexpired events of its key as it found them.
C8_DeniedLeavesEvents ==
    Orderly => \A i \in Idx : ~log[i].allowed => log[i].after = log[i].before

\* C9: the shared store never holds more than limit events for a key.
C9_StoredWithinLimit ==
    \A k \in DOMAIN policy : zcard(redis_key(k)) <= Limit(k)

\* C10: every result has current <= limit, current = count + 1 when admitted
\* and count when denied, and remaining = max(0, limit - current).
C10_CurrentWithinLimit ==
    \A i \in Idx :
        LET e == log[i]
            count == Size(e, e.before)
        IN  /\ e.info.current <= e.info.limit
            /\ e.info.current = IF e.allowed THEN count + 1 ELSE count
            /\ e.info.remaining = Max(0, e.info.limit - e.info.current)

-----------------------------------------------------------------------------
\* Text.  A Python str is modelled as the sequence of its characters, so that
\* split, strip, slicing and concatenation are computed on what they act on.
\* None is the empty sequence and a value v that may be None is <<v>>.
None == << >>
Some(v) == <<v>>

\* The characters str.strip() removes that the model's texts contain.
whitespace == {" ", "\t"}

RECURSIVE lstrip(_)
lstrip(s) == IF s # << >> /\ Head(s) \in whitespace THEN lstrip(Tail(s)) ELSE s

RECURSIVE rstrip(_)
rstrip(s) ==
    IF s # << >> /\ s[Len(s)] \in whitespace
    THEN rstrip(SubSeq(s, 1, Len(s) - 1))
    ELSE s

\* s.strip()
strip(s) == rstrip(lstrip(s))

\* s.split(sep)[0]: the characters before the first sep, all of s without one.
RECURSIVE split_first(_, _)
split_first(s, sep) ==
    IF s = << >> \/ Head(s) = sep
    THEN << >>
    ELSE <<Head(s)>> \o split_first(Tail(s), sep)

\* The addresses the model's requests resolve to.
addr_empty == << >>

addr_7 == <<"7">>

addr_8 == <<"8">>

addr_9 == <<"9">>

addr_unknown == <<"u", "n", "k", "n", "o", "w", "n">>


\* hashlib.sha256(ip.encode()).hexdigest(), on those addresses: the 64
\* hexadecimal digits SHA-256 gives for each of them.
sha256_hexdigest(ip) ==
    CASE ip = addr_empty ->
        <<"e", "3", "b", "0", "c", "4", "4", "2", "9", "8", "f", "c", "1",
          "c", "1", "4", "9", "a", "f", "b", "f", "4", "c", "8", "9", "9",
          "6", "f", "b", "9", "2", "4", "2", "7", "a", "e", "4", "1", "e",
          "4", "6", "4", "9", "b", "9", "3", "4", "c", "a", "4", "9", "5",
          "9", "9", "1", "b", "7", "8", "5", "2", "b", "8", "5", "5">>
      [] ip = addr_7 ->
        <<"7", "9", "0", "2", "6", "9", "9", "b", "e", "4", "2", "c", "8",
          "a", "8", "e", "4", "6", "f", "b", "b", "b", "4", "5", "0", "1",
          "7", "2", "6", "5", "1", "7", "e", "8", "6", "b", "2", "2", "c",
          "5", "6", "a", "1", "8", "9", "f", "7", "6", "2", "5", "a", "6",
          "d", "a", "4", "9", "0", "8", "1", "b", "2", "4", "5", "1">>
      [] ip = addr_8 ->
        <<"2", "c", "6", "2", "4", "2", "3", "2", "c", "d", "d", "2", "2",
          "1", "7", "7", "1", "2", "9", "4", "d", "f", "b", "b", "3", "1",
          "0", "a", "c", "a", "0", "0", "0", "a", "0", "d", "f", "6", "a",
          "c", "8", "b", "6", "6", "b", "6", "9", "6", "d", "9", "0", "e",
          "f", "0", "6", "f", "d", "e", "f", "b", "6", "4", "a", "3">>
      [] ip = addr_9 ->
        <<"1", "9", "5", "8", "1", "e", "2", "7", "d", "e", "7", "c", "e",
          "d", "0", "0", "f", "f", "1", "c", "e", "5", "0", "b", "2", "0",
          "4", "7", "e", "7", "a", "5", "6", "7", "c", "7", "6", "b", "1",
          "c", "b", "a", "e", "b", "a", "b", "e", "5", "e", "f", "0", "3",
          "f", "7", "c", "3", "0", "1", "7", "b", "b", "5", "b", "7">>
      [] ip = addr_unknown ->
        <<"b", "2", "3", "a", "6", "a", "8", "4", "3", "9", "c", "0", "d",
          "d", "e", "5", "5", "1", "5", "8", "9", "3", "e", "7", "c", "9",
          "0", "c", "1", "e", "3", "2", "3", "3", "b", "8", "6", "1", "6",
          "e", "6", "3", "4", "4", "7", "0", "f", "2", "0", "d", "c", "4",
          "9", "2", "8", "b", "c", "f", "3", "6", "0", "9", "b", "c">>


\* The endpoint classes, as text.

class_health == <<"h", "e", "a", "l", "t", "h">>

class_analytics_summary == <<"a", "n", "a", "l", "y", "t", "i", "c", "s", "_", "s", "u", "m",
      "m", "a", "r", "y">>

class_analytics == <<"a", "n", "a", "l", "y", "t", "i", "c", "s">>

class_users == <<"u", "s", "e", "r", "s">>

class_ask == <<"a", "s", "k">>

class_execute == <<"e", "x", "e", "c", "u", "t", "e">>

class_roadmaps == <<"r", "o", "a", "d", "m", "a", "p", "s">>

class_global == <<"g", "l", "o", "b", "a", "l">>

class_other == <<"o", "t", "h", "e", "r">>

\* String constants of the guards, as text.
health_prefix == <<"/", "h", "e", "a", "l", "t", "h">>
rate_limit_prefix ==
    <<"r", "a", "t", "e", "_", "l", "i", "m", "i", "t", ":">>

\* Equality in place of the prefix test.
startswith_whole(s, prefix) == s = prefix

\* s.startswith(prefix)
startswith(s, prefix) ==
    Len(s) >= Len(prefix) /\ SubSeq(s, 1, Len(prefix)) = prefix

-----------------------------------------------------------------------------
\* Requests.  request.headers is a function from header names to the value
\* sent, None for a header that was not sent; request.client is None or the
\* host of the transport peer; request.url.path is text.
HeaderNames == {"X-Forwarded-For", "X-Real-IP"}

\* if value: a str that is neither None nor empty.
truthy(value) == value # None /\ value[1] # << >>

\* The address taken from the headers as they were sent, blanks and all.
get_client_ip_untrimmed(request) ==
    LET forwarded_for == request.headers["X-Forwarded-For"]
        real_ip == request.headers["X-Real-IP"]
    IN  IF truthy(forwarded_for)
        THEN split_first(forwarded_for[1], ",")
        ELSE IF truthy(real_ip)
        THEN real_ip[1]
        ELSE IF request.client # None
        THEN request.client[1]
        ELSE addr_unknown

\* get_client_ip(request)
get_client_ip(request) ==
    LET forwarded_for == request.headers["X-Forwarded-For"]
        real_ip == request.headers["X-Real-IP"]
    IN  IF truthy(forwarded_for)
        THEN strip(split_first(forwarded_for[1], ","))
        ELSE IF truthy(real_ip)
        THEN strip(real_ip[1])
        ELSE IF request.client # None
        THEN request.client[1]
        ELSE addr_unknown

\* The key made from the address alone: the endpoint is left out of it.
create_rate_limit_key_without_endpoint(ip, endpoint) ==
    LET ip_hash == SubSeq(sha256_hexdigest(ip), 1, 16)
    IN  rate_limit_prefix \o <<":">> \o ip_hash

\* create_rate_limit_key(ip, endpoint)
create_rate_limit_key(ip, endpoint) ==
    LET ip_hash == SubSeq(sha256_hexdigest(ip), 1, 16)
    IN  rate_limit_prefix \o endpoint \o <<":">> \o ip_hash

\* RATE_LIMITS
RATE_LIMITS ==
    (class_health :> [limit |-> 100, window |-> 60]) @@
    (class_analytics_summary :> [limit |-> 30, window |-> 60]) @@
    (class_analytics :> [limit |-> 10, window |-> 60]) @@
    (class_users :> [limit |-> 5, window |-> 60]) @@
    (class_ask :> [limit |-> 20, window |-> 300]) @@
    (class_execute :> [limit |-> 10, window |-> 300]) @@
    (class_roadmaps :> [limit |-> 3, window |-> 300])

\* A lookup whose default admits nothing.
rate_limits_get_closed(endpoint_type) ==
    IF endpoint_type \in DOMAIN RATE_LIMITS
    THEN RATE_LIMITS[endpoint_type]
    ELSE [limit |-> 0, window |-> 60]

\* RATE_LIMITS.get(endpoint_type, {"limit": 60, "window": 60})
rate_limits_get(endpoint_type) ==
    IF endpoint_type \in DOMAIN RATE_LIMITS
    THEN RATE_LIMITS[endpoint_type]
    ELSE [limit |-> 60, window |-> 60]

\* The policy of the global guard: is_allowed(rate_key, 1000, 3600).
global_config == [limit |-> 1000, window |-> 3600]

-----------------------------------------------------------------------------
\* Responses.  A response object is a record with a status code, a content
\* and headers (a function from names to text); what a handler returns that
\* is no response object is a record without headers.

\* The headers both guards put on a denial built at time t.
denied_headers(info, t) ==
    ("X-RateLimit-Limit" :> str(info.limit)) @@
    ("X-RateLimit-Remaining" :> str(info.remaining)) @@
    ("X-RateLimit-Reset" :> str(info.reset)) @@
    ("Retry-After" :> str(info.reset - t))

\* A denial that tells the caller nothing about when to come back.
wrapper_denied_without_retry(info, config, endpoint_type, t) ==
    [status_code |-> 429,
     content |-> [error |-> "Rate limit exceeded", endpoint |-> endpoint_type],
     headers |-> ("X-RateLimit-Limit" :> str(info.limit))]

\* The JSONResponse of the route guard's wrapper when the check denied.
wrapper_denied(info, config, endpoint_type, t) ==
    [status_code |-> 429,
     content |-> [error |-> "Rate limit exceeded",
                  message |-> <<"Too many requests. Limit: ",
                                str(info.limit), " per ",
                                str(config.window), " seconds">>,
                  retry_after |-> info.reset - t,
                  endpoint |-> endpoint_type],
     headers |-> denied_headers(info, t)]

\* The JSONResponse of rate_limit_middleware when the check denied.
middleware_denied(info, t) ==
    [status_code |-> 429,
     content |-> [error |-> "Global rate limit exceeded",
                  message |-> "Too many requests from your IP address",
                  retry_after |-> info.reset - t],
     headers |-> denied_headers(info, t)]

\* hasattr(response, 'headers')
has_headers(response) == "headers" \in DOMAIN response

\* The wrapper hands the handler's response on as it got it.
wrapper_admitted_bare(response, info) == response

\* The wrapper after the handler returned: the three headers of the check,
\* on a response that has headers.
wrapper_admitted(response, info) ==
    IF has_headers(response)
    THEN [response EXCEPT !.headers =
              ("X-RateLimit-Limit" :> str(info.limit)) @@
              ("X-RateLimit-Remaining" :> str(info.remaining)) @@
              ("X-RateLimit-Reset" :> str(info.reset)) @@ @]
    ELSE response

\* What call_next(request) gives the middleware for what the route returned:
\* a response object as it is, anything else as the content of a response.
call_next_response(returned) ==
    IF has_headers(returned)
    THEN returned
    ELSE [status_code |-> 200, content |-> returned, headers |-> << >>]

\* rate_limit_middleware after call_next: the global headers, when the
\* global check was made (a health path returns call_next's response as is).
middleware_admitted(response, global) ==
    IF global = None
    THEN response
    ELSE [response EXCEPT !.headers =
              ("X-RateLimit-Global-Limit" :> str(global[1].info.limit)) @@
              ("X-RateLimit-Global-Remaining" :>
                   str(global[1].info.remaining)) @@ @]

\* A guard that lets a denied request through.
guard_passes_always(allowed) == TRUE

\* if not allowed: return the 429 -- a request goes on only when admitted.
guard_passes(allowed) == allowed

-----------------------------------------------------------------------------
\* The guards at work in the server process: rate_limit_middleware around
\* every route, and the wrapper of @rate_limit(endpoint_type) around the
\* handler of the route.  Both call the module's rate_limiter, which was
\* made with no Redis URL: every check is a _check_memory.
Server == "p1"

path_health == <<"/", "h", "e", "a", "l", "t", "h">>
path_health_detailed ==
    <<"/", "h", "e", "a", "l", "t", "h", "/", "d", "e", "t", "a", "i", "l",
      "e", "d">>
path_analytics == <<"/", "a", "n", "a", "l", "y", "t", "i", "c", "s">>

\* Header values that were sent.
text_7_then_8 == <<" ", "7", " ", ",", "8">>
text_comma_8 == <<",", "8">>
text_blank == <<" ", "\t">>
text_8_padded == <<" ", "8", "\t">>

NoHeaders == [name \in HeaderNames |-> None]

\* What a request brings: the path, the headers, the transport peer, the
\* endpoint_type of the decorator on the route it reaches, and whether the
\* handler of that route takes the Request as an argument.
Request(path, headers, client, endpoint_type, has_request) ==
    [path |-> path, headers |-> headers, client |-> client,
     endpoint_type |-> endpoint_type, has_request |-> has_request]

\* The requests the guards are driven with: from address 7 behind a proxy to
\* a roadmaps route (one whose handler takes the Request and one whose handler
\* does not) and to a health route, and from address 8 directly to a route
\* whose endpoint_type is not in RATE_LIMITS.
proxied_7 == [NoHeaders EXCEPT !["X-Forwarded-For"] = Some(text_7_then_8)]

GuardRequests ==
    { Request(path_analytics, proxied_7, Some(addr_9), class_roadmaps, TRUE),
      Request(path_health_detailed, proxied_7, Some(addr_9), class_health,
              TRUE),
      Request(path_analytics, proxied_7, Some(addr_9), class_roadmaps, FALSE),
      Request(path_analytics, NoHeaders, Some(addr_8), class_other, TRUE) }

\* What a handler may return: a response object, or a plain value.
HandlerResponses ==
    { [status_code |-> 200, content |-> "handled", headers |-> << >>],
      [content |-> "handled"] }

\* The result of a guard's check, as the guard keeps it: the pair is_allowed
\* returned, the key and the policy it was called with, and the time.
Checked(c, rate_key, config, t) ==
    [allowed |-> c.allowed, info |-> c.info, key |-> rate_key,
     config |-> config, at |-> t]

\* The events the server's store holds under a key.
events(store, key) == IF key \in DOMAIN store THEN store[key] ELSE << >>

\* A request reaches the server.  (Requests are alike: r1 comes first.)
Arrive(r, request) ==
    /\ req[r].stage = "none"
    /\ r = "r2" => req["r1"].stage # "none"
    /\ req' = [req EXCEPT ![r] =
                  [stage |-> "middleware", request |-> request,
                   global |-> None, route |-> None, steps |-> << >>,
                   handler_calls |-> 0, handler_response |-> None,
                   returned |-> None, outcome |-> "pending",
                   response |-> None]]
    /\ UNCHANGED <<now, redis_ok, redis_client, zset, ttl, memory_store,
                   last_cleanup, pc, call, policy, log, prompt,
                   redis_stalled, thread, validation>>

\* rate_limit_middleware(request, call_next), up to call_next or the 429.
rate_limit_middleware(r) ==
    /\ req[r].stage = "middleware"
    /\ LET request == req[r].request
       IN  IF startswith(request.path, health_prefix)
           THEN /\ req' = [req EXCEPT ![r].stage = "route"]
                /\ UNCHANGED <<memory_store, last_cleanup>>
           ELSE LET client_ip == get_client_ip(request)
                    rate_key == create_rate_limit_key(client_ip, class_global)
                    c == check_memory(memory_store[Server],
                                      last_cleanup[Server], rate_key,
                                      global_config.limit,
                                      global_config.window, now)
                    passes == guard_passes(c.allowed)
                IN  /\ memory_store' =
                           [memory_store EXCEPT ![Server] = c.store]
                    /\ last_cleanup' =
                           [last_cleanup EXCEPT ![Server] = c.last_cleanup]
                    /\ req' = [req EXCEPT ![r] = [@ EXCEPT
                           !.global = Some(Checked(c, rate_key,
                                                   global_config, now)),
                           !.steps = Append(@, "global_check"),
                           !.stage = IF passes THEN "route" ELSE "done",
                           !.outcome = IF passes THEN @ ELSE "response",
                           !.response =
                               IF passes THEN @
                               ELSE Some(middleware_denied(c.info, now))]]
    /\ UNCHANGED <<now, redis_ok, redis_client, zset, ttl, pc, call, policy,
                   log, prompt, redis_stalled, thread, validation>>

\* A wrapper that refuses what it cannot check: the call ends in an error
\* and the handler is not invoked.
wrapper_refusing(r) ==
    /\ req[r].stage = "route"
    /\ req' = [req EXCEPT ![r] = [@ EXCEPT !.stage = "done",
                                           !.outcome = "raised"]]
    /\ UNCHANGED <<now, redis_ok, redis_client, zset, ttl, memory_store,
                   last_cleanup, pc, call, policy, log, prompt,
                   redis_stalled, thread, validation>>

\* The wrapper of @rate_limit(endpoint_type), up to the call of the handler
\* or the 429 (which goes back out through the middleware).
wrapper(r) ==
    /\ req[r].stage = "route"
    /\ LET request == req[r].request
           endpoint_type == request.endpoint_type
       IN  IF ~request.has_request
           THEN /\ req' = [req EXCEPT ![r] = [@ EXCEPT
                       !.steps = Append(@, "handler"),
                       !.handler_calls = @ + 1,
                       !.stage = "handler"]]
                /\ UNCHANGED <<memory_store, last_cleanup>>
           ELSE LET config == rate_limits_get(endpoint_type)
                    client_ip == get_client_ip(request)
                    rate_key == create_rate_limit_key(client_ip,
                                                      endpoint_type)
                    c == check_memory(memory_store[Server],
                                      last_cleanup[Server], rate_key,
                                      config.limit, config.window, now)
                    passes == guard_passes(c.allowed)
                    denied == wrapper_denied(c.info, config, endpoint_type,
                                             now)
                IN  /\ memory_store' =
                           [memory_store EXCEPT ![Server] = c.store]
                    /\ last_cleanup' =
                           [last_cleanup EXCEPT ![Server] = c.last_cleanup]
                    /\ req' = [req EXCEPT ![r] = [@ EXCEPT
                           !.route = Some(Checked(c, rate_key, config, now)),
                           !.steps = IF passes
                                     THEN @ \o <<"route_check", "handler">>
                                     ELSE Append(@, "route_check"),
                           !.handler_calls = IF passes THEN @ + 1 ELSE @,
                           !.stage = IF passes THEN "handler" ELSE "done",
                           !.returned = IF passes THEN @ ELSE Some(denied),
                           !.outcome = IF passes THEN @ ELSE "response",
                           !.response =
                               IF passes THEN @
                               ELSE Some(middleware_admitted(
                                        denied, req[r].global))]]
    /\ UNCHANGED <<now, redis_ok, redis_client, zset, ttl, pc, call, policy,
                   log, prompt, redis_stalled, thread, validation>>

\* The handler returns: the wrapper puts the headers of its check on the
\* response and returns it, and the middleware adds those of the global one.
HandlerReturns(r, response) ==
    /\ req[r].stage = "handler"
    /\ LET returned == IF req[r].route = None
                       THEN response
                       ELSE wrapper_admitted(response, req[r].route[1].info)
       IN  req' = [req EXCEPT ![r] = [@ EXCEPT
                       !.stage = "done",
                       !.outcome = "response",
                       !.handler_response = Some(response),
                       !.returned = Some(returned),
                       !.response = Some(middleware_admitted(
                           call_next_response(returned), req[r].global))]]
    /\ UNCHANGED <<now, redis_ok, redis_client, zset, ttl, memory_store,
                   last_cleanup, pc, call, policy, log, prompt,
                   redis_stalled, thread, validation>>

\* The handler raises: neither guard catches, and neither touches the store.
HandlerRaises(r) ==
    /\ req[r].stage = "handler"
    /\ req' = [req EXCEPT ![r] = [@ EXCEPT !.stage = "done",
                                           !.outcome = "raised"]]
    /\ UNCHANGED <<now, redis_ok, redis_client, zset, ttl, memory_store,
                   last_cleanup, pc, call, policy, log, prompt,
                   redis_stalled, thread, validation>>

\* The request is cancelled while its handler is suspended.
HandlerCancelled(r) ==
    /\ req[r].stage = "handler"
    /\ req' = [req EXCEPT ![r] = [@ EXCEPT !.stage = "done",
                                           !.outcome = "cancelled"]]
    /\ UNCHANGED <<now, redis_ok, redis_client, zset, ttl, memory_store,
                   last_cleanup, pc, call, policy, log, prompt,
                   redis_stalled, thread, validation>>

\* The keys that hold events when the model starts, and how many events a
\* key with the given policy may then hold: none, one short of the limit, or
\* the limit.
Fill(config) == {0, config.limit - 1, config.limit}

\* The server has run for less than a second: its store holds what earlier
\* requests from address 7 left under the global key (one of the numbers in
\* global_fill) and the roadmaps key (one of those in route_fill), all of
\* them events of second 0.
InitGuardWith(global_fill, route_fill) ==
    /\ now = 0
    /\ redis_ok = TRUE
    /\ redis_stalled = FALSE
    /\ redis_client = [p \in Procs |->
           rate_limiter_init(TRUE, FALSE, TRUE).redis_client]
    /\ zset = [k \in Keys |-> {}]
    /\ ttl = [k \in Keys |-> 0]
    /\ \E g \in global_fill, n \in route_fill :
          LET global_key == create_rate_limit_key(addr_7, class_global)
              route_key == create_rate_limit_key(addr_7, class_roadmaps)
              held == (IF g > 0 THEN {global_key} ELSE {}) \cup
                      (IF n > 0 THEN {route_key} ELSE {})
          IN  memory_store = [p \in Procs |->
                  IF p = Server
                  THEN [k \in held |->
                           [i \in 1..(IF k = global_key THEN g ELSE n) |-> 0]]
                  ELSE rate_limiter_init(TRUE, FALSE, TRUE).memory_store]
    /\ last_cleanup = [p \in Procs |->
           rate_limiter_init(TRUE, FALSE, TRUE).last_cleanup]
    /\ pc = [p \in Procs |-> "idle"]
    /\ call = [p \in Procs |-> NoCall]
    /\ policy = << >>
    /\ log = << >>
    /\ prompt = TRUE
    /\ req = [r \in Reqs |-> NoRequest]
    /\ thread = [t \in Threads |-> NoThread]
    /\ validation = NoValidation

InitGuard ==
    InitGuardWith(Fill(global_config), Fill(RATE_LIMITS[class_roadmaps]))

NextGuard ==
    \/ Tick
    \/ \E r \in Reqs, request \in GuardRequests : Arrive(r, request)
    \/ \E r \in Reqs : rate_limit_middleware(r)
    \/ \E r \in Reqs : wrapper(r)
    \/ \E r \in Reqs, response \in HandlerResponses :
           HandlerReturns(r, response)
    \/ \E r \in Reqs : HandlerRaises(r)
    \/ \E r \in Reqs : HandlerCancelled(r)

SpecGuard == InitGuard /\ [][NextGuard]_vars

-----------------------------------------------------------------------------
\* What the guards did for a request, read off its record.
Has(steps, a) == \E i \in DOMAIN steps : steps[i] = a
Before(steps, a, b) ==
    \E i, j \in DOMAIN steps : i < j /\ steps[i] = a /\ steps[j] = b
IsHealth(q) ==
    \E n \in 0..Len(q.request.path) :
        SubSeq(q.request.path, 1, n) = path_health
GlobalAdmitted(q) == q.global # None /\ q.global[1].allowed
GlobalDenied(q) == q.global # None /\ ~q.global[1].allowed
RouteAdmitted(q) == q.route # None /\ q.route[1].allowed
RouteDenied(q) == q.route # None /\ ~q.route[1].allowed
Arrived == {r \in Reqs : req[r].stage # "none"}

\* The order of the guards for the request in record q.  unchecked says
\* whether a handler that takes no Request may run with no route check.
GuardOrder(q, unchecked) ==
    /\ (~IsHealth(q) /\ q.stage # "middleware") =>
           (q.steps # << >> /\ q.steps[1] = "global_check")
    /\ Has(q.steps, "route_check") =>
           /\ q.route # None
           /\ IsHealth(q) \/ (GlobalAdmitted(q) /\
                  Before(q.steps, "global_check", "route_check"))
    /\ (Has(q.steps, "handler") \/ q.handler_calls > 0) =>
           \/ RouteAdmitted(q) /\ Before(q.steps, "route_check", "handler")
           \/ unchecked /\ ~q.request.has_request /\ q.route = None
    /\ GlobalDenied(q) =>
           /\ q.stage = "done" /\ q.steps = <<"global_check">>
           /\ q.route = None /\ q.handler_calls = 0
    /\ RouteDenied(q) =>
           /\ q.stage = "done" /\ q.handler_calls = 0
           /\ q.steps[Len(q.steps)] = "route_check"

\* The step in which the global guard denies request r leaves the events of
\* every key but the global guard's own as they were.
GlobalDenialFrame(r) ==
    (req[r].stage = "middleware" /\ GlobalDenied(req'[r])) =>
        \A k \in (DOMAIN memory_store[Server]) \cup
                 (DOMAIN memory_store'[Server]) :
            k # req'[r].global[1].key =>
                events(memory_store'[Server], k) =
                    events(memory_store[Server], k)

DenialHeaders(response, checked) ==
    /\ {"X-RateLimit-Limit", "X-RateLimit-Remaining", "X-RateLimit-Reset",
        "Retry-After"} \subseteq DOMAIN response.headers
    /\ response.headers["X-RateLimit-Limit"] = str(checked.info.limit)
    /\ response.headers["X-RateLimit-Remaining"] =
           str(checked.info.remaining)
    /\ response.headers["X-RateLimit-Reset"] = str(checked.info.reset)
    /\ response.headers["Retry-After"] =
           str(checked.info.reset - checked.at)

\* C12: a request that a guard denied got no handler call and an HTTP 429
\* with X-RateLimit-Limit, X-RateLimit-Remaining, X-RateLimit-Reset and
\* Retry-After (reset minus the time of the response) from the denying check;
\* the route guard's content has error "Rate limit exceeded", message,
\* retry_after and endpoint, the global guard's has error "Global rate limit
\* exceeded".
C12_DenialResponse ==
    \A r \in Arrived :
        LET q == req[r]
        IN  /\ RouteDenied(q) =>
                /\ q.handler_calls = 0 /\ ~Has(q.steps, "handler")
                /\ q.outcome = "response"
                /\ q.returned # None /\ q.response # None
                /\ q.returned[1].status_code = 429
                /\ q.response[1].status_code = 429
                /\ DenialHeaders(q.returned[1], q.route[1])
                /\ DenialHeaders(q.response[1], q.route[1])
                /\ q.response[1].content = q.returned[1].content
                /\ DOMAIN q.returned[1].content =
                       {"error", "message", "retry_after", "endpoint"}
                /\ q.returned[1].content.error = "Rate limit exceeded"
                /\ q.returned[1].content.retry_after =
                       q.route[1].info.reset - q.route[1].at
                /\ q.returned[1].content.endpoint = q.request.endpoint_type
            /\ GlobalDenied(q) =>
                /\ q.handler_calls = 0 /\ ~Has(q.steps, "handler")
                /\ q.outcome = "response"
                /\ q.response # None
                /\ q.response[1].status_code = 429
                /\ DenialHeaders(q.response[1], q.global[1])
                /\ q.response[1].content.error =
                       "Global rate limit exceeded"

\* The route guard denied one request and the global guard another.
C12_Witness ==
    \E r, s \in Arrived :
        /\ RouteDenied(req[r]) /\ req[r].response # None
        /\ req[r].route[1].info.reset - req[r].route[1].at > 0
        /\ GlobalDenied(req[s]) /\ req[s].response # None

\* The three headers of an admission, for the result of the route check.
AdmissionHeaders(response, checked) ==
    /\ {"X-RateLimit-Limit", "X-RateLimit-Remaining", "X-RateLimit-Reset"}
           \subseteq DOMAIN response.headers
    /\ response.headers["X-RateLimit-Limit"] = str(checked.info.limit)
    /\ response.headers["X-RateLimit-Remaining"] =
           str(checked.info.remaining)
    /\ response.headers["X-RateLimit-Reset"] = str(checked.info.reset)

\* C13: once the route guard admitted a request its handler has been invoked
\* exactly once, and what the handler returned is what the wrapper returns,
\* with X-RateLimit-Limit, X-RateLimit-Remaining and X-RateLimit-Reset of
\* that check on it whenever it has headers.
C13_AdmittedHandlerOnce ==
    \A r \in Arrived :
        LET q == req[r]
        IN  RouteAdmitted(q) =>
                /\ q.handler_calls = 1
                /\ q.outcome = "response" =>
                    /\ q.handler_response # None /\ q.returned # None
                    /\ IF has_headers(q.handler_response[1])
                       THEN /\ q.returned[1].status_code =
                                   q.handler_response[1].status_code
                            /\ q.returned[1].content =
                                   q.handler_response[1].content
                            /\ AdmissionHeaders(q.returned[1], q.route[1])
                            /\ AdmissionHeaders(q.response[1], q.route[1])
                       ELSE q.returned[1] = q.handler_response[1]

\* A handler the route guard admitted returned a response with headers that
\* show a remaining count below the limit, and another returned a plain value.
C13_Witness ==
    \E r, s \in Arrived :
        /\ RouteAdmitted(req[r]) /\ req[r].outcome = "response"
        /\ has_headers(req[r].handler_response[1])
        /\ req[r].route[1].info.remaining < req[r].route[1].info.limit - 1
        /\ RouteAdmitted(req[s]) /\ req[s].outcome = "response"
        /\ ~has_headers(req[s].handler_response[1])

\* C14: a request whose path starts with /health is handed by the global
\* guard to the next handler with no global check: the step leaves the store
\* and last_cleanup as they were, and such a request never has a global
\* result, so the global guard never denies it.
C14_HealthBypass ==
    [][\A r \in Reqs :
          /\ (req[r].stage = "middleware" /\ IsHealth(req[r])
                 /\ req'[r] # req[r]) =>
                /\ req'[r].stage = "route"
                /\ memory_store' = memory_store
                /\ last_cleanup' = last_cleanup
          /\ (req'[r].stage # "none" /\ IsHealth(req'[r])) =>
                /\ req'[r].global = None
                /\ ~Has(req'[r].steps, "global_check")]_vars

\* A request on a health path is past the global guard while the global key
\* of its address is full.
C14_Witness ==
    \E r \in Arrived :
        /\ IsHealth(req[r]) /\ req[r].stage \in {"route", "handler", "done"}
        /\ Len(events(memory_store[Server],
                      create_rate_limit_key(get_client_ip(req[r].request),
                                            class_global)))
               = global_config.limit

-----------------------------------------------------------------------------
\* The guards over a longer time, from a server that has just started:
\* whole cleanup intervals may pass as well.
InitGuardFresh == InitGuardWith({0}, {0})

NextGuardLong ==
    \/ NextGuard
    \/ TickInterval

SpecGuardLong == InitGuardFresh /\ [][NextGuardLong]_vars

\* The event of an admitting check is in the deque of its key.
Counted(checked) ==
    \E i \in DOMAIN events(memory_store[Server], checked.key) :
        events(memory_store[Server], checked.key)[i] = checked.at

\* The request is over, and its checks were made within one second.
ServedAtOnce(q) ==
    /\ q.stage = "done"
    /\ (q.global # None /\ q.route # None) => q.global[1].at = q.route[1].at

\* C15: the event of an admitting check stays counted until it expires,
\* whatever became of the request (its handler returned, raised or was
\* cancelled): while the window of the check has not run out, the event is
\* among those of its key.
C15_AdmittedStaysCounted ==
    \A r \in Arrived :
        ServedAtOnce(req[r]) =>
            /\ (GlobalAdmitted(req[r]) /\
                now < req[r].global[1].at + req[r].global[1].config.window)
                   => Counted(req[r].global[1])
            /\ (RouteAdmitted(req[r]) /\
                now < req[r].route[1].at + req[r].route[1].config.window)
                   => Counted(req[r].route[1])

-----------------------------------------------------------------------------
\* A shared store that may fall silent.  The client is made by
\* redis.from_url(redis_url, decode_responses=True): no socket timeout is
\* given, so a call the server leaves unanswered neither returns nor raises.

\* The Redis server stops answering without closing the connection, or
\* answers again.
RedisStall ==
    /\ redis_stalled' = ~redis_stalled
    /\ UNCHANGED <<now, redis_ok, redis_client, zset, ttl, memory_store,
                   last_cleanup, pc, call, policy, log, prompt, req,
                   thread, validation>>

NextStall ==
    \/ NextFallback
    \/ RedisStall

SpecStall == InitFallback /\ [][NextStall]_vars

\* C16: a check against the shared store never blocks for good: whenever a
\* check has started, the step that ends its pending Redis call -- the
\* answer, or the failure that sends it to the local store -- can be taken.
C16_CheckNeverBlocks ==
    \A p \in Procs :
        pc[p] # "idle" =>
            ENABLED (\/ PipelineExecute(p) \/ PipelineFail(p)
                     \/ ZremExecute(p) \/ ZremFail(p))

\* C17: every route check is made with the policy RATE_LIMITS has for the
\* endpoint class of the route, and with 60 per 60 seconds for a class the
\* table does not have; the limit and the window so used are at least 1, as
\* are all those of the table.
C17_RoutePolicy ==
    /\ \A e \in DOMAIN RATE_LIMITS :
           RATE_LIMITS[e].limit >= 1 /\ RATE_LIMITS[e].window >= 1
    /\ \A r \in Arrived :
           req[r].route # None =>
               LET c == req[r].route[1]
                   e == req[r].request.endpoint_type
               IN  /\ e \in DOMAIN RATE_LIMITS => c.config = RATE_LIMITS[e]
                   /\ e \notin DOMAIN RATE_LIMITS =>
                          c.config = [limit |-> 60, window |-> 60]
                   /\ c.config.limit >= 1 /\ c.config.window >= 1
                   /\ c.info.limit = c.config.limit
                   /\ c.info.reset = c.at + c.config.window
                   /\ c.key = create_rate_limit_key(
                                  get_client_ip(req[r].request), e)

\* One route check was made with the policy of a class of the table and one
\* with the default policy, for a class the table does not have.
C17_Witness ==
    \E r, s \in Arrived :
        /\ req[r].route # None
        /\ req[r].request.endpoint_type = class_roadmaps
        /\ req[r].route[1].config = [limit |-> 3, window |-> 300]
        /\ req[s].route # None
        /\ req[s].request.endpoint_type \notin DOMAIN RATE_LIMITS
        /\ req[s].route[1].info.limit = 60

-----------------------------------------------------------------------------
\* get_client_ip and create_rate_limit_key on their own: the requests differ
\* in the headers sent and in the transport peer, and each is resolved to an
\* address and then keyed under an endpoint class.
SentValues ==
    {None, Some(<< >>), Some(addr_7), Some(text_7_then_8),
     Some(text_comma_8), Some(text_blank)}
RealIpValues == {None, Some(<< >>), Some(text_8_padded), Some(text_blank)}
Peers == {None, Some(addr_9), Some(addr_7)}
KeyClasses == {class_ask, class_analytics, class_analytics_summary,
               class_global}

\* The requests of r1, and the fewer ones of r2.
KeyRequests(r) ==
    { Request(path_analytics,
              [name \in HeaderNames |->
                  IF name = "X-Forwarded-For" THEN forwarded_for
                  ELSE real_ip],
              client, class_other, TRUE) :
        forwarded_for \in
            IF r = "r1" THEN SentValues ELSE {None, Some(text_7_then_8)},
        real_ip \in
            IF r = "r1" THEN RealIpValues ELSE {None, Some(text_8_padded)},
        client \in IF r = "r1" THEN Peers ELSE {None, Some(addr_7)} }

InitKey ==
    /\ now = 0
    /\ redis_ok = TRUE
    /\ redis_stalled = FALSE
    /\ redis_client = [p \in Procs |->
           rate_limiter_init(TRUE, FALSE, TRUE).redis_client]
    /\ zset = [k \in Keys |-> {}]
    /\ ttl = [k \in Keys |-> 0]
    /\ memory_store = [p \in Procs |->
           rate_limiter_init(TRUE, FALSE, TRUE).memory_store]
    /\ last_cleanup = [p \in Procs |->
           rate_limiter_init(TRUE, FALSE, TRUE).last_cleanup]
    /\ pc = [p \in Procs |-> "idle"]
    /\ call = [p \in Procs |-> NoCall]
    /\ policy = << >>
    /\ log = << >>
    /\ prompt = TRUE
    /\ thread = [t \in Threads |-> NoThread]
    /\ validation = NoValidation
    /\ \E q1 \in KeyRequests("r1"), q2 \in KeyRequests("r2") :
           req = [r \in Reqs |->
                     [stage |-> "arrived",
                      request |-> IF r = "r1" THEN q1 ELSE q2]]

\* client_ip = get_client_ip(request)
GetClientIp(r) ==
    /\ req[r].stage = "arrived"
    /\ req' = [req EXCEPT ![r] =
                  [stage |-> "resolved", request |-> @.request,
                   client_ip |-> Some(get_client_ip(@.request))]]
    /\ UNCHANGED <<now, redis_ok, redis_client, zset, ttl, memory_store,
                   last_cleanup, pc, call, policy, log, prompt,
                   redis_stalled, thread, validation>>

\* rate_key = create_rate_limit_key(client_ip, endpoint)
CreateRateLimitKey(r, endpoint) ==
    /\ req[r].stage = "resolved"
    /\ req' = [req EXCEPT ![r] =
                  [stage |-> "keyed", request |-> @.request,
                   client_ip |-> @.client_ip, endpoint |-> endpoint,
                   rate_key |-> Some(create_rate_limit_key(@.client_ip[1],
                                                           endpoint))]]
    /\ UNCHANGED <<now, redis_ok, redis_client, zset, ttl, memory_store,
                   last_cleanup, pc, call, policy, log, prompt,
                   redis_stalled, thread, validation>>

NextKey ==
    \/ \E r \in Reqs : GetClientIp(r)
    \/ \E r \in Reqs, endpoint \in KeyClasses : CreateRateLimitKey(r, endpoint)

SpecKey == InitKey /\ [][NextKey]_vars

\* The entry before the first comma of a header value, and a text without
\* the blanks and tabs around it.
FirstEntry(v) ==
    LET commas == {i \in 1..Len(v) : v[i] = ","}
        n == IF commas = {} THEN Len(v) + 1
             ELSE CHOOSE i \in commas : \A j \in commas : i <= j
    IN  [i \in 1..(n - 1) |-> v[i]]
Trimmed(e) ==
    LET solid == {i \in 1..Len(e) : e[i] \notin {" ", "\t"}}
        first == CHOOSE i \in solid : \A j \in solid : i <= j
        last == CHOOSE i \in solid : \A j \in solid : i >= j
    IN  IF solid = {} THEN << >>
        ELSE [i \in 1..(last - first + 1) |-> e[first + i - 1]]

\* The address the resolution rule gives, where usable says which header
\* values count.
Resolution(request, usable(_)) ==
    LET forwarded_for == request.headers["X-Forwarded-For"]
        real_ip == request.headers["X-Real-IP"]
    IN  IF usable(forwarded_for) THEN Trimmed(FirstEntry(forwarded_for[1]))
        ELSE IF usable(real_ip) THEN Trimmed(real_ip[1])
        ELSE IF request.client # None THEN request.client[1]
        ELSE <<"u", "n", "k", "n", "o", "w", "n">>
IsSent(v) == v # None
IsSentNonEmpty(v) == v # None /\ v[1] # << >>
Resolved == {r \in Reqs : req[r].stage \in {"resolved", "keyed"}}
Keyed == {r \in Reqs : req[r].stage = "keyed"}

\* C18 as stated: get_client_ip returns the trimmed first comma-separated
\* entry of X-Forwarded-For when that header is present, else the trimmed
\* X-Real-IP when present, else the transport peer's host when known, else
\* "unknown", and always returns a value.
C18_ClientIpAsStated ==
    \A r \in Resolved :
        /\ req[r].client_ip # None
        /\ req[r].client_ip[1] = Resolution(req[r].request, IsSent)

\* C18, amended: the same with "present" read as sent with a value that is
\* not empty; a header sent empty is passed over like one not sent.
C18_ClientIp ==
    \A r \in Resolved :
        /\ req[r].client_ip # None
        /\ req[r].client_ip[1] = Resolution(req[r].request, IsSentNonEmpty)

\* One request sent an empty X-Forwarded-For and was resolved by X-Real-IP,
\* and another was resolved to the first of two forwarded addresses.
C18_Witness ==
    \E r, s \in Resolved :
        /\ req[r].request.headers["X-Forwarded-For"] = Some(<< >>)
        /\ req[r].request.headers["X-Real-IP"] = Some(text_8_padded)
        /\ req[r].client_ip = Some(addr_8)
        /\ req[s].request.headers["X-Forwarded-For"] = Some(text_7_then_8)
        /\ req[s].client_ip = Some(addr_7)

\* The key built from its parts: a prefix, the class, a colon and the first
\* 16 hexadecimal digits of the SHA-256 of the address.
KeyOf(prefix, endpoint, ip) ==
    LET digest == sha256_hexdigest(ip)
        n == Len(prefix) + Len(endpoint)
    IN  [i \in 1..(n + 17) |->
            IF i <= Len(prefix) THEN prefix[i]
            ELSE IF i <= n THEN endpoint[i - Len(prefix)]
            ELSE IF i = n + 1 THEN ":"
            ELSE digest[i - n - 1]]
KeysDiffer ==
    \A r, s \in Keyed :
        /\ (req[r].client_ip = req[s].client_ip /\
            req[r].endpoint = req[s].endpoint)
               => req[r].rate_key = req[s].rate_key
        /\ (req[r].client_ip = req[s].client_ip /\
            req[r].endpoint # req[s].endpoint)
               => req[r].rate_key # req[s].rate_key

\* C19 as stated: the key is "ratelimit:" + endpoint_class + ":" + the first
\* 16 hex characters of sha256(address); equal inputs give equal keys and one
\* address under two classes gives two keys.
C19_KeyAsStated ==
    /\ \A r \in Keyed :
           req[r].rate_key =
               Some(KeyOf(<<"r", "a", "t", "e", "l", "i", "m", "i", "t", ":">>,
                          req[r].endpoint, req[r].client_ip[1]))
    /\ KeysDiffer

\* C19, amended: the same with the prefix "rate_limit:".
C19_Key ==
    /\ \A r \in Keyed :
           req[r].rate_key =
               Some(KeyOf(<<"r", "a", "t", "e", "_", "l", "i", "m", "i", "t",
                            ":">>,
                          req[r].endpoint, req[r].client_ip[1]))
    /\ KeysDiffer

\* Two requests from one address are keyed under two classes of which one
\* name begins with the other, and the keys differ.
C19_Witness ==
    \E r, s \in Keyed :
        /\ req[r].client_ip = req[s].client_ip
        /\ req[r].endpoint = class_analytics
        /\ req[s].endpoint = class_analytics_summary
        /\ req[r].rate_key # req[s].rate_key
        /\ Len(req[r].rate_key[1]) = 37

-----------------------------------------------------------------------------
\* The one key checked with a limit of 0, by a process with a client and by
\* one without, on empty stores.
InitZero ==
    InitWithPolicies(
        [p \in Procs |-> rate_limiter_init(TRUE, TRUE, p = "p1").redis_client],
        [{"ka"} -> [limit : {0}, window : 1..MaxWindow]])

SpecZero == InitZero /\ [][NextFallback]_vars

\* C20: with limit 0 every check is denied, by either backend, and records
\* no event: once no check is under way, neither store holds an event of the
\* key.
C20_ZeroLimitDenies ==
    /\ \A i \in Idx : log[i].outcome = "returned" /\ ~log[i].allowed
    /\ InFlight = {} =>
           /\ redis_key("ka") = {}
           /\ \A p \in Procs : events(memory_store[p], "ka") = << >>

-----------------------------------------------------------------------------
\* backend/app/tools/code_validator.py: CodeValidator.validate_code.
\*
\* A test case has an expected_output and a should_raise, each None or a
\* value.  What CodeExecutor.execute returns for the code with the test is a
\* status, the output, and the error: None, or a text of which the model
\* keeps which of the substrings the validator looks for it contains.
TestCase(expected_output, should_raise) ==
    [expected_output |-> expected_output, should_raise |-> should_raise]
Success(output) == [status |-> "success", output |-> output]
Error(error) == [status |-> "error", error |-> error]
Mentions(words) == Some([mentions |-> words])

\* A test together with what the executor returns for it.
TestRuns ==
    { [test_case |-> TestCase(Some(<<"5">>), None),
       result |-> Success(<<"5", " ">>)],
      [test_case |-> TestCase(Some(<<"5">>), None),
       result |-> Success(<<"8">>)],
      [test_case |-> TestCase(None, None),
       result |-> Success(<<"8">>)],
      [test_case |-> TestCase(None, Some("ValueError")),
       result |-> Error(Mentions({"ValueError"}))],
      [test_case |-> TestCase(None, None),
       result |-> Error(Mentions({"ValueError"}))],
      [test_case |-> TestCase(None, None),
       result |-> Error(Mentions({"timeout"}))],
      [test_case |-> TestCase(None, None),
       result |-> Error(Mentions({}))],
      [test_case |-> TestCase(None, None),
       result |-> Error(None)] }

\* _run_single_test: the TestStatus of the test, or "raised" where
\* result.get('error', '').lower() is called on an error that is None.
run_single_test(test_case, result) ==
    IF result.status = "error"
    THEN IF result.error = None THEN "raised"
         ELSE IF "timeout" \in result.error[1].mentions THEN "timeout"
         ELSE IF test_case.should_raise # None /\
                 test_case.should_raise[1] \in result.error[1].mentions
         THEN "passed"
         ELSE "error"
    ELSE IF truthy(test_case.expected_output)
         THEN IF strip(result.output) = strip(test_case.expected_output[1])
              THEN "passed"
              ELSE "failed"
         ELSE "passed"

\* A rubric that gives 80 to a run in which every test passed.
calculate_confidence_low(passed, total, errors) ==
    IF total = 0 THEN 0 ELSE Max(20, 80 - errors * 10)

\* _calculate_confidence(passed, total, errors), errors being len(errors).
calculate_confidence(passed, total, errors) ==
    IF total = 0 THEN 0
    ELSE LET base_score ==
                 IF passed = total THEN 95
                 ELSE IF passed * 10 >= total * 8 THEN 80
                 ELSE IF passed * 10 >= total * 6 THEN 70
                 ELSE IF passed * 10 >= total * 4 THEN 50
                 ELSE 30
             error_penalty == errors * 10
         IN  Max(20, base_score - error_penalty)

\* sum(1 for r in results if r['status'] in statuses)
count_status(results, statuses) ==
    Cardinality({i \in DOMAIN results : results[i] \in statuses})

\* The ValidationResult validate_code builds from the statuses of the tests.
validation_result(results) ==
    LET passed == count_status(results, {"passed"})
        failed == count_status(results, {"failed"})
        errors == count_status(results, {"error", "timeout"})
        total == Len(results)
    IN  [success |-> (passed = total /\ total > 0),
         confidence_score |-> calculate_confidence(passed, total, errors),
         total_tests |-> total,
         passed_tests |-> passed,
         failed_tests |-> failed,
         error_details |-> errors]

\* The most tests one call is given.
MaxTests == 3

\* _generate_basic_tests on python code with the given number of function
\* definitions: a smoke test for each (it passes unless the code itself
\* fails), and one basic test for code that defines none or does not parse.
generate_basic_tests(functions, runs) ==
    IF functions = 0
    THEN <<[test_case |-> TestCase(Some(<<"O", "K">>), None),
            result |-> IF runs THEN Success(<<"O", "K", " ">>)
                       ELSE Error(Mentions({}))]>>
    ELSE [i \in 1..functions |->
             [test_case |-> TestCase(None, None),
              result |-> IF runs THEN Success(<<"8">>)
                         ELSE Error(Mentions({}))]]

\* The lists of at most n tests, each with what its run will give.
TestLists(n) == UNION {[1..m -> TestRuns] : m \in 0..n}

\* validate_code(code, test_cases) is called: with no test cases, or an
\* empty list of them, the tests are generated from the code.
ValidateCode(test_cases, functions, runs) ==
    /\ validation.stage = "none"
    /\ validation' =
           [stage |-> "running",
            test_cases |-> IF test_cases = << >>
                           THEN generate_basic_tests(functions, runs)
                           ELSE test_cases,
            results |-> << >>]
    /\ UNCHANGED <<now, redis_ok, redis_client, zset, ttl, memory_store,
                   last_cleanup, pc, call, policy, log, prompt,
                   redis_stalled, req, thread>>

\* result = await self._run_single_test(code, test_case, language), for the
\* next test of the list; an exception in it ends the call.
RunSingleTest ==
    /\ validation.stage = "running"
    /\ Len(validation.results) < Len(validation.test_cases)
    /\ LET x == validation.test_cases[Len(validation.results) + 1]
           status == run_single_test(x.test_case, x.result)
       IN  validation' =
               IF status = "raised"
               THEN [validation EXCEPT !.stage = "raised"]
               ELSE [validation EXCEPT !.results = Append(@, status)]
    /\ UNCHANGED <<now, redis_ok, redis_client, zset, ttl, memory_store,
                   last_cleanup, pc, call, policy, log, prompt,
                   redis_stalled, req, thread>>

\* Every test has run: the ValidationResult is returned.
ValidateCodeReturns ==
    /\ validation.stage = "running"
    /\ Len(validation.results) = Len(validation.test_cases)
    /\ validation' =
           [stage |-> "returned",
            test_cases |-> validation.test_cases,
            results |-> validation.results,
            result |-> validation_result(validation.results)]
    /\ UNCHANGED <<now, redis_ok, redis_client, zset, ttl, memory_store,
                   last_cleanup, pc, call, policy, log, prompt,
                   redis_stalled, req, thread>>

\* The validator shares nothing with the limiter, which stays as built.
InitValidator ==
    InitWithPolicies(
        [p \in Procs |-> rate_limiter_init(TRUE, FALSE, TRUE).redis_client],
        [{"ka"} -> [limit : {1}, window : {1}]])

NextValidator ==
    \/ /\ validation.stage = "none"
       /\ \E test_cases \in TestLists(MaxTests), functions \in 0..MaxTests,
             runs \in BOOLEAN :
              ValidateCode(test_cases, functions, runs)
    \/ RunSingleTest
    \/ ValidateCodeReturns

SpecValidator == InitValidator /\ [][NextValidator]_vars

\* C21: the result validate_code returns has success exactly when at least
\* one test ran and every test passed; then failed_tests is 0 and
\* confidence_score at least 90; and when no test passed, success is false
\* and confidence_score below 50.
C21_ValidationSuccess ==
    validation.stage = "returned" =>
        LET ran == validation.results
            all_passed == \A i \in DOMAIN ran : ran[i] = "passed"
            none_passed == \A i \in DOMAIN ran : ran[i] # "passed"
            result == validation.result
        IN  /\ Len(ran) = Len(validation.test_cases)
            /\ result.success <=> (Len(ran) >= 1 /\ all_passed)
            /\ result.success =>
                   result.failed_tests = 0 /\ result.confidence_score >= 90
            /\ none_passed =>
                   ~result.success /\ result.confidence_score < 50

\* A call with three tests of which one expected an exception returned
\* success.
C21_Witness ==
    /\ validation.stage = "returned"
    /\ validation.result.success
    /\ validation.result.total_tests = 3
    /\ \E i \in DOMAIN validation.test_cases :
           validation.test_cases[i].test_case.should_raise # None

-----------------------------------------------------------------------------
\* The events of a deque that are inside a window of the given length at
\* time t, and the deque of key k in a store (empty for a key not in it).
Live(timestamps, window, t) ==
    SelectSeq(timestamps, LAMBDA e : e > t - window)
DequeOf(store, k) == IF k \in DOMAIN store THEN store[k] ELSE << >>
IsPrefix(s, t) == Len(s) <= Len(t) /\ SubSeq(t, 1, Len(s)) = s

\* A step of process p in which its check ran the sweep.
Swept(p) == last_cleanup'[p] # last_cleanup[p]

\* C22: the sweep a local check runs removes exactly the keys whose whole
\* deque has expired under the key's own window: every event that is still
\* inside the window of its key is in the store after the check, and no key
\* is left that holds only expired events.
C22_SweepByOwnWindow ==
    [][\A p \in Procs : Swept(p) =>
          \A k \in Keys :
              /\ IsPrefix(Live(DequeOf(memory_store[p], k),
                               policy[k].window, now),
                          Live(DequeOf(memory_store'[p], k),
                               policy[k].window, now))
              /\ k \in DOMAIN memory_store'[p] =>
                     Live(memory_store'[p][k], policy[k].window, now) # << >>
      ]_vars

\* C23: checks on one key never influence another key: each check on a key
\* returns the (allowed, remaining, current) it returns in the run that
\* differs only in making no check on any other key.
C23_KeysIndependent ==
    \A k \in DOMAIN policy : LocalReplayAgrees(1, << >>, 0, EntriesOf(k))

\* A process with a client, after two checks on ka at time 0 of which the
\* first found the server unreachable and was admitted by the local store
\* and the second was admitted by the shared store: each store holds one
\* event of time 0.  The log starts here.
InitRetry ==
    /\ now = 0
    /\ redis_ok \in BOOLEAN
    /\ redis_stalled = FALSE
    /\ redis_client = [p \in Procs |->
           rate_limiter_init(TRUE, TRUE, p = "p1").redis_client]
    /\ policy \in Policies({"ka"})
    /\ zset = [k \in Keys |->
                  IF k = "ka" THEN zadd({}, str(0), 0) ELSE {}]
    /\ ttl = [k \in Keys |-> IF k = "ka" THEN policy[k].window ELSE 0]
    /\ memory_store = [p \in Procs |->
           IF p = "p1"
           THEN check_memory(<< >>, 0, "ka", policy["ka"].limit,
                             policy["ka"].window, 0).store
           ELSE rate_limiter_init(TRUE, TRUE, FALSE).memory_store]
    /\ last_cleanup = [p \in Procs |->
           rate_limiter_init(TRUE, TRUE, TRUE).last_cleanup]
    /\ pc = [p \in Procs |-> "idle"]
    /\ call = [p \in Procs |-> NoCall]
    /\ log = << >>
    /\ prompt = TRUE
    /\ req = [r \in Reqs |-> NoRequest]
    /\ thread = [t \in Threads |-> NoThread]
    /\ validation = NoValidation

\* The checks of that process, with the server coming and going.
NextRetry ==
    \/ Tick
    \/ RedisFlip
    \/ \E k \in DOMAIN policy : IsAllowedRedis("p1", k)
    \/ PipelineExecute("p1")
    \/ PipelineFail("p1")
    \/ ZremExecute("p1")
    \/ ZremFail("p1")

SpecRetry == InitRetry /\ [][NextRetry]_vars

\* The state SpecRetry starts from, as SpecFallback reaches it.
RetryStateReached ==
    /\ now = 0
    /\ InFlight = {}
    /\ Len(log) = 2
    /\ \A i \in Idx : log[i].proc = "p1" /\ log[i].allowed
    /\ log[1].fellback /\ log[2].backend = "redis"
    /\ zset["ka"] = zadd({}, str(0), 0)
    /\ ttl["ka"] = policy["ka"].window
    /\ memory_store["p1"] =
           check_memory(<< >>, 0, "ka", policy["ka"].limit,
                        policy["ka"].window, 0).store
    /\ last_cleanup["p1"] = 0

\* C24: after a denial of a check made at time t, a check on the same key
\* made at t + window_seconds or later is admitted, provided no check on that
\* key was admitted between the two (stated for checks that each returned
\* within the second in which they read the clock).
C24_RetryAfterWindow ==
    Prompt => \A i, j \in Idx :
        (/\ i < j
         /\ log[i].key = log[j].key
         /\ ~log[i].allowed
         /\ log[i].info.limit >= 1
         /\ log[j].now >= log[i].now + Window(log[i].key)
         /\ \A m \in (i + 1)..(j - 1) :
                log[m].key = log[i].key => ~log[m].allowed)
        => log[j].allowed

-----------------------------------------------------------------------------
\* _check_memory run by threads in parallel on the store of process p1, one
\* statement at a time.  A thread in a check has the key, the now it was
\* called with, its place (pc), the locals current_count and allowed once
\* set, and a mark (disturbed) that another thread changed the store since
\* the check began.  The clock stays below the cleanup interval here, so the
\* sweep of lines 123-125 is never due.
StoreHost == "p1"
Running == {t \in Threads : thread[t].pc # "idle"}

\* The threads as they are after thread t changed the store.
Disturb(t, th) ==
    [u \in Threads |->
        IF u # t /\ th[u].pc # "idle"
        THEN [th[u] EXCEPT !.disturbed = TRUE]
        ELSE th[u]]

\* The log entry of a check of a thread: counted is the len(timestamps) it
\* read, current_count what it reports.
ThreadReturned(t, allowed, counted, current_count, outcome) ==
    LET c == thread[t]
    IN  [proc |-> StoreHost, key |-> c.key, now |-> c.now,
         outcome |-> outcome, allowed |-> allowed,
         info |-> [limit |-> policy[c.key].limit,
                   remaining |-> Max(0, policy[c.key].limit - current_count),
                   reset |-> c.now + policy[c.key].window,
                   current |-> current_count],
         backend |-> "memory", fellback |-> FALSE,
         thread |-> t, counted |-> counted,
         disturbed |-> c.disturbed]

\* is_allowed reads the clock and calls _check_memory, which finds no sweep
\* due and takes the deque of the key: timestamps = self.memory_store[key].
ThreadCall(t, k) ==
    /\ thread[t].pc = "idle"
    /\ Len(log) + Cardinality(Running) < MaxChecks
    /\ ~(now - last_cleanup[StoreHost] > memory_cleanup_interval)
    /\ thread' = [thread EXCEPT ![t] =
                     [pc |-> "while", key |-> k, now |-> now,
                      current_count |-> 0, allowed |-> FALSE,
                      disturbed |-> FALSE]]
    /\ memory_store' = [memory_store EXCEPT ![StoreHost] =
           [j \in (DOMAIN @) \cup {k} |-> DequeOf(@, j)]]
    /\ UNCHANGED <<now, redis_ok, redis_client, zset, ttl, last_cleanup, pc,
                   call, policy, log, prompt, redis_stalled, req, validation>>

\* while timestamps and timestamps[0] <= now - window: the test.
ThreadWhile(t) ==
    /\ thread[t].pc = "while"
    /\ LET c == thread[t]
           timestamps == memory_store[StoreHost][c.key]
       IN  thread' = [thread EXCEPT ![t].pc =
               IF timestamps # << >> /\
                  Head(timestamps) <= c.now - policy[c.key].window
               THEN "popleft" ELSE "len"]
    /\ UNCHANGED <<now, redis_ok, redis_client, zset, ttl, memory_store,
                   last_cleanup, pc, call, policy, log, prompt,
                   redis_stalled, req, validation>>

\* timestamps.popleft(): the first entry as it is now goes; on a deque that
\* another thread has emptied in the meantime it raises IndexError.
ThreadPopleft(t) ==
    /\ thread[t].pc = "popleft"
    /\ LET c == thread[t]
           timestamps == memory_store[StoreHost][c.key]
       IN  IF timestamps = << >>
           THEN /\ log' = Append(log, ThreadReturned(t, FALSE, 0, 0, "raised"))
                /\ thread' = [thread EXCEPT ![t] = NoThread]
                /\ UNCHANGED memory_store
           ELSE /\ memory_store' =
                       [memory_store EXCEPT ![StoreHost][c.key] = Tail(@)]
                /\ thread' = Disturb(t, [thread EXCEPT ![t].pc = "while"])
                /\ UNCHANGED log
    /\ UNCHANGED <<now, redis_ok, redis_client, zset, ttl, last_cleanup, pc,
                   call, policy, prompt, redis_stalled, req, validation>>

\* current_count = len(timestamps); allowed = current_count < limit; a
\* check that is not allowed returns.
ThreadLen(t) ==
    /\ thread[t].pc = "len"
    /\ LET c == thread[t]
           current_count == Len(memory_store[StoreHost][c.key])
           allowed == memory_allowed(current_count, policy[c.key].limit)
       IN  IF allowed
           THEN /\ thread' = [thread EXCEPT ![t].pc = "append",
                                            ![t].current_count = current_count,
                                            ![t].allowed = allowed]
                /\ UNCHANGED log
           ELSE /\ thread' = [thread EXCEPT ![t] = NoThread]
                /\ log' = Append(log, ThreadReturned(t, FALSE, current_count,
                                                     current_count, "returned"))
    /\ UNCHANGED <<now, redis_ok, redis_client, zset, ttl, memory_store,
                   last_cleanup, pc, call, policy, prompt, redis_stalled,
                   req, validation>>

\* timestamps.append(now); current_count += 1; the check returns allowed.
ThreadAppend(t) ==
    /\ thread[t].pc = "append"
    /\ LET c == thread[t]
       IN  /\ memory_store' =
                  [memory_store EXCEPT ![StoreHost][c.key] = Append(@, c.now)]
           /\ log' = Append(log, ThreadReturned(t, TRUE, c.current_count,
                                                c.current_count + 1,
                                                "returned"))
    /\ thread' = Disturb(t, [thread EXCEPT ![t] = NoThread])
    /\ UNCHANGED <<now, redis_ok, redis_client, zset, ttl, last_cleanup, pc,
                   call, policy, prompt, redis_stalled, req, validation>>

InitThreads ==
    InitWith([p \in Procs |-> rate_limiter_init(TRUE, FALSE, TRUE).redis_client],
             {"ka"})

NextThreads ==
    \/ Tick
    \/ \E t \in Threads, k \in DOMAIN policy : ThreadCall(t, k)
    \/ \E t \in Threads : ThreadWhile(t)
    \/ \E t \in Threads : ThreadPopleft(t)
    \/ \E t \in Threads : ThreadLen(t)
    \/ \E t \in Threads : ThreadAppend(t)

SpecThreads == InitThreads /\ [][NextThreads]_vars

\* The admitted checks on the key of entry i made within one window from it.
AdmittedFrom(i) ==
    {j \in Idx : /\ log[j].allowed
                 /\ log[j].key = log[i].key
                 /\ log[i].now <= log[j].now
                 /\ log[j].now < log[i].now + Window(log[i].key)}

\* C25: threads running the local check in parallel can admit more than
\* limit checks within one window, each of them having read a count below
\* limit; it takes the interleaving to do so: as long as no check, returned
\* or under way, had the store changed under it by another thread, no window
\* holds more than limit admitted checks, and every admitted check read a
\* count below limit.
C25_ThreadsRace ==
    /\ \A i \in Idx : log[i].allowed => log[i].counted < Limit(log[i].key)
    /\ (/\ \A i \in Idx : ~log[i].disturbed
        /\ \A t \in Running : ~thread[t].disturbed) =>
           \A i \in Idx :
               log[i].allowed => Cardinality(AdmittedFrom(i)) <= Limit(log[i].key)

\* C25, witness: two threads each read a count below limit and recorded an
\* event at the same second, and the window holds more than limit admitted
\* checks.
C25_Witness ==
    \E i, j \in Idx :
        /\ log[i].thread # log[j].thread
        /\ log[i].allowed /\ log[j].allowed
        /\ log[i].now = log[j].now
        /\ log[i].counted < Limit(log[i].key)
        /\ log[j].counted < Limit(log[j].key)
        /\ Cardinality(AdmittedFrom(i)) > Limit(log[i].key)

\* C26: a check that the shared store's transaction found over the limit is
\* returned as denied, whether the removal of its event runs or fails.
C26_DenialSurvivesZremFailure ==
    [][\A p \in Procs :
          (pc[p] = "zrem" /\ pc'[p] = "idle") =>
              /\ Len(log') = Len(log) + 1
              /\ log'[Len(log')].proc = p
              /\ ~log'[Len(log')].allowed
      ]_vars

\* The times of the checks before entry i that the local store of the same
\* process admitted on the same key, in log order, and those of them inside
\* the window of entry i.
LocalHistory(i) ==
    LET earlier == SelectSeq(SubSeq(log, 1, i - 1),
                       LAMBDA x : /\ x.proc = log[i].proc
                                  /\ x.key = log[i].key
                                  /\ x.backend = "memory"
                                  /\ x.allowed)
    IN  [n \in 1..Len(earlier) |-> earlier[n].now]
LocalWindow(i) == Live(LocalHistory(i), Window(log[i].key), log[i].now)

\* The admitted checks on key k of process p within the window that ends at
\* entry i, by the store that decided them.
AdmittedBy(p, k, i, backend) ==
    {j \in 1..i : /\ log[j].proc = p
                  /\ log[j].key = k
                  /\ log[j].backend = backend
                  /\ log[j].allowed
                  /\ log[j].now > log[i].now - Window(k)}

\* C27: the two stores keep separate window state: a check answered by the
\* local store, after a Redis error or not, counts exactly the events that
\* earlier local-store checks of its process recorded inside the window, and
\* is admitted iff they number less than limit, whatever the shared store
\* holds; so the local store admits at most limit checks per window, besides
\* those the shared store admitted.
C27_SeparateWindowState ==
    \A i \in Idx :
        log[i].backend = "memory" =>
            /\ log[i].before = LocalWindow(i)
            /\ log[i].allowed <=> Len(LocalWindow(i)) < Limit(log[i].key)
            /\ Cardinality(AdmittedBy(log[i].proc, log[i].key, i, "memory"))
                   <= Limit(log[i].key)

\* C27, witness: within one window a process had limit checks admitted by
\* the shared store and then limit more admitted by fallback checks, the
\* last of which found the shared store holding an event of the key.
C27_Witness ==
    \E i \in Idx :
        LET p == log[i].proc
            k == log[i].key
        IN  /\ log[i].fellback /\ log[i].allowed
            /\ Cardinality(AdmittedBy(p, k, i, "redis")) = Limit(k)
            /\ Cardinality(AdmittedBy(p, k, i, "memory")) = Limit(k)
            /\ \A j \in AdmittedBy(p, k, i, "redis") :
                   \A m \in AdmittedBy(p, k, i, "memory") : j < m
            /\ redis_key(k) # {}

-----------------------------------------------------------------------------
\* The wall clock is set back: time.time() returns less than it did.
ClockBack ==
    /\ \E t \in 0..(now - 1) : now' = t
    /\ UNCHANGED <<redis_ok, redis_client, zset, ttl, memory_store,
                   last_cleanup, pc, call, policy, log, prompt,
                   redis_stalled, req, thread, validation>>

\* One process serving every check on a key from its local store, under a
\* clock that may be set back.
InitClock ==
    InitWith([p \in Procs |-> rate_limiter_init(TRUE, FALSE, TRUE).redis_client],
             {"ka"})

NextClock ==
    \/ Tick
    \/ ClockBack
    \/ \E k \in DOMAIN policy : IsAllowedMemory("p1", k)

SpecClock == InitClock /\ [][NextClock]_vars

\* C28: when the clock goes backward between checks on the local store, an
\* event may be counted after it should have expired (at its timestamp plus
\* window_seconds), but no check made window_seconds or more after that
\* moment counts it.
C28_BoundedUnderExpiry ==
    \A i \in Idx :
        \A n \in DOMAIN log[i].before :
            log[i].now < log[i].before[n] + 2 * Window(log[i].key)

\* C29: when the wrapper finds no Request among the arguments it invokes the
\* handler once with no check: the step leaves the store and last_cleanup as
\* they were, the request never has a route result, so the route guard
\* never denies it, and what the handler returns is returned as it is.
C29_NoRequestUnchecked ==
    [][\A r \in Reqs :
          /\ (req[r].stage = "route" /\ ~req[r].request.has_request
                 /\ req'[r] # req[r]) =>
                /\ req'[r].stage = "handler"
                /\ req'[r].handler_calls = 1
                /\ memory_store' = memory_store
                /\ last_cleanup' = last_cleanup
          /\ (req'[r].stage # "none" /\ ~req'[r].request.has_request) =>
                /\ req'[r].route = None
                /\ ~Has(req'[r].steps, "route_check")
                /\ req'[r].handler_calls <= 1
                /\ req'[r].outcome = "response" =>
                       \/ GlobalDenied(req'[r])
                       \/ req'[r].returned = req'[r].handler_response]_vars

\* C29, witness: the handler of a request whose wrapper found no Request
\* has returned, while the key a route check would have used is at its limit.
C29_Witness ==
    \E r \in Arrived :
        LET q == req[r]
            rate_key == create_rate_limit_key(get_client_ip(q.request),
                                              q.request.endpoint_type)
            config == rate_limits_get(q.request.endpoint_type)
        IN  /\ ~q.request.has_request
            /\ q.stage = "done" /\ q.outcome = "response"
            /\ q.handler_calls = 1
            /\ q.returned = q.handler_response
            /\ Len(events(memory_store[Server], rate_key)) >= config.limit

\* A deque in non-decreasing order.
NonDecreasing(timestamps) ==
    \A m, n \in DOMAIN timestamps : m <= n => timestamps[m] <= timestamps[n]

\* C30: under a clock that never goes backward, after every check of the
\* local store the deque of each key is in non-decreasing order, and the
\* deque of the key just checked holds no timestamp at or before now minus
\* window_seconds and at most limit entries.
C30_DequeShape ==
    [][Len(log') = Len(log) + 1 =>
          LET e == log'[Len(log')]
              store == memory_store'[e.proc]
              timestamps == store[e.key]
          IN  /\ \A k \in DOMAIN store : NonDecreasing(store[k])
              /\ e.key \in DOMAIN store
              /\ \A n \in DOMAIN timestamps :
                     timestamps[n] > e.now - Window(e.key)
              /\ Len(timestamps) <= Limit(e.key)
      ]_vars

\* C30, witness: a check dropped an expired entry and left the deque of its
\* key with limit entries of two different seconds.
C30_Witness ==
    \E i \in Idx \ {1} :
        LET e == log[i]
            store == memory_store[e.proc]
        IN  /\ i = Len(log)
            /\ e.key \in DOMAIN store /\ store[e.key] = e.after
            /\ Len(e.after) = Limit(e.key)
            /\ e.after[1] < e.after[Len(e.after)]
            /\ log[i - 1].key = e.key
            /\ log[i - 1].after[1] <= e.now - Window(e.key)

====
